---------------------------- MODULE Spec2Model ----------------------------
(***************************************************************************)
(* A model of src/main.rs: the departures printer that queries the bus     *)
(* provider (fetch_act) and the rail provider (fetch_bart) and prints one  *)
(* line per record (main).                                                 *)
(*                                                                         *)
(* The program is one sequential async task.  Each action below is one     *)
(* stretch of code between two suspension points (an .await) or one        *)
(* iteration of a loop that reads the clock or writes to standard output.  *)
(* What the two providers answer is the nondeterministic input of the      *)
(* actions that resume from an .await.                                     *)
(*                                                                         *)
(* Strings whose content the code inspects character by character (the     *)
(* minutes field and the predicted departure) are sequences of one         *)
(* character strings; all other strings are TLA+ strings.                  *)
(***************************************************************************)
EXTENDS Integers, Sequences, FiniteSets, TLC

VARIABLES
    pc,          \* the control location of the task
    ri,          \* fetch_act: index of the route of `for route in ACT_ROUTES`
    stops,       \* fetch_act: the deserialized nearby stops of the route
    si,          \* fetch_act: index of the stop of `for stop in stops`
    trips,       \* fetch_act: the deserialized trips of the stop
    sti,         \* fetch_bart: index of the station of `for station in BART_STOPS`
    estimates,   \* fetch_bart: what the three nested loops have still to visit
    act_stops,   \* fetch_act's stops_info, main's act_stops once it returns
    bart_stops,  \* fetch_bart's stops_info, main's bart_stops once it returns
    k,           \* main: index of the record of `for stop in stops`
    output,      \* the lines written to standard output
    now,         \* the local clock, what chrono::Local::now().naive_local() reads
    requests,    \* every HTTP request issued so far, in order
    inflight,    \* "idle", "sent" (awaiting send()), "head" (status and headers in)
    last         \* the last thing the network delivered to the task

vars == <<pc, ri, stops, si, trips, sti, estimates, act_stops, bart_stops, k,
          output, now, requests, inflight, last>>

-----------------------------------------------------------------------------
(* Option<T> *)

None == <<>>

Some(x) == <<x>>

-----------------------------------------------------------------------------
(* The configuration of the program. *)

ACT_ROUTES ==
    << [name |-> "51B", radius |-> 600],
       [name |-> "27", radius |-> 800],
       [name |-> "E", radius |-> 1575] >>

BART_STOPS == << "ROCK", "ASHB" >>

OK == 200

-----------------------------------------------------------------------------
(* Characters and numbers. *)

Digit == {"0", "1", "2", "3", "4", "5", "6", "7", "8", "9"}

DigitVal(c) ==
    CASE c = "0" -> 0 [] c = "1" -> 1 [] c = "2" -> 2 [] c = "3" -> 3
      [] c = "4" -> 4 [] c = "5" -> 5 [] c = "6" -> 6 [] c = "7" -> 7
      [] c = "8" -> 8 [] c = "9" -> 9

RECURSIVE StripZeros(_)
StripZeros(ds) ==
    IF Len(ds) > 1 /\ ds[1] = "0" THEN StripZeros(Tail(ds)) ELSE ds

RECURSIVE DigitsLess(_, _)
\* a < b for two digit strings of the same length
DigitsLess(a, b) ==
    IF a = <<>> THEN FALSE
    ELSE IF a[1] # b[1] THEN DigitVal(a[1]) < DigitVal(b[1])
    ELSE DigitsLess(Tail(a), Tail(b))

\* the digits of i64::MAX and of -i64::MIN
I64_MAX_DIGITS ==
    <<"9","2","2","3","3","7","2","0","3","6","8","5","4","7","7","5","8","0","7">>

I64_MIN_DIGITS ==
    <<"9","2","2","3","3","7","2","0","3","6","8","5","4","7","7","5","8","0","8">>

\* str::parse::<i64>: an optional sign, then one or more ASCII digits, the
\* value within the range of i64.  The value is kept as a sign and its
\* digits without leading zeros.
ParseI64(s) ==
    LET signed == Len(s) > 0 /\ s[1] \in {"+", "-"}
        neg    == Len(s) > 0 /\ s[1] = "-"
        body   == IF signed THEN Tail(s) ELSE s
        ds     == StripZeros(body)
        limit  == IF neg THEN I64_MIN_DIGITS ELSE I64_MAX_DIGITS
    IN  IF body = <<>> \/ \E i \in 1..Len(body) : body[i] \notin Digit
        THEN [ok |-> FALSE]
        ELSE IF Len(ds) > Len(limit) \/ (Len(ds) = Len(limit) /\ DigitsLess(limit, ds))
        THEN [ok |-> FALSE]
        ELSE [ok |-> TRUE, neg |-> neg, digits |-> ds]

-----------------------------------------------------------------------------
(* chrono::NaiveDateTime, to the second: the day number (days since         *)
(* 1970-01-01 in the proleptic Gregorian calendar) and the second of day.   *)

IsLeap(y) == (y % 4 = 0 /\ y % 100 # 0) \/ y % 400 = 0

DaysInMonth(y, m) ==
    IF m = 2 THEN (IF IsLeap(y) THEN 29 ELSE 28)
    ELSE IF m \in {4, 6, 9, 11} THEN 30 ELSE 31

DaysFromCivil(y, m, d) ==
    LET yy  == IF m <= 2 THEN y - 1 ELSE y
        era == yy \div 400
        yoe == yy - era * 400
        mp  == IF m > 2 THEN m - 3 ELSE m + 9
        doy == (153 * mp + 2) \div 5 + d - 1
        doe == yoe * 365 + yoe \div 4 - yoe \div 100 + doy
    IN  era * 146097 + doe - 719468

DateTime(y, mo, d, h, mi, s) ==
    [days |-> DaysFromCivil(y, mo, d), secs |-> h * 3600 + mi * 60 + s]

\* the dates chrono can represent: NaiveDate::MIN and NaiveDate::MAX
MIN_DATE_DAYS == DaysFromCivil(-262143, 1, 1)

MAX_DATE_DAYS == DaysFromCivil(262142, 12, 31)

\* A numeric item of a chrono format string: at least one and at most w digits.
TakeNum(s, w) ==
    LET RECURSIVE Count(_)
        Count(n) == IF n < w /\ n < Len(s) /\ s[n + 1] \in Digit THEN Count(n + 1) ELSE n
        RECURSIVE Val(_, _)
        Val(i, acc) == IF i = 0 THEN acc ELSE Val(i - 1, acc) * 10 + DigitVal(s[i])
        n == Count(0)
    IN  IF n = 0 THEN [ok |-> FALSE]
        ELSE [ok |-> TRUE, val |-> Val(n, 0), rest |-> SubSeq(s, n + 1, Len(s))]

\* A literal character of a chrono format string.
TakeLit(r, c) ==
    IF r.ok /\ Len(r.rest) > 0 /\ r.rest[1] = c
    THEN [ok |-> TRUE, rest |-> Tail(r.rest)]
    ELSE [ok |-> FALSE]

TakeField(r, w) == IF r.ok THEN TakeNum(r.rest, w) ELSE [ok |-> FALSE]

\* chrono::NaiveDateTime::parse_from_str(s, "%Y-%m-%dT%H:%M:%S") for inputs
\* without sign, white space or leap second: Some(date time), or None for Err.
ParseDateTime(s) ==
    LET y  == TakeNum(s, 4)
        mo == TakeField(TakeLit(y, "-"), 2)
        d  == TakeField(TakeLit(mo, "-"), 2)
        h  == TakeField(TakeLit(d, "T"), 2)
        mi == TakeField(TakeLit(h, ":"), 2)
        se == TakeField(TakeLit(mi, ":"), 2)
    IN  IF /\ se.ok
           /\ se.rest = <<>>
           /\ mo.val \in 1..12
           /\ d.val \in 1..DaysInMonth(y.val, mo.val)
           /\ h.val \in 0..23
           /\ mi.val \in 0..59
           /\ se.val \in 0..59
        THEN Some(DateTime(y.val, mo.val, d.val, h.val, mi.val, se.val))
        ELSE None

\* the digits of the largest i64 that chrono::Duration::minutes accepts
\* (i64::MAX / 1000 / 60)
DURATION_MAX_MINUTES_DIGITS ==
    <<"1","5","3","7","2","2","8","6","7","2","8","0","9","1","2">>

\* chrono::Duration::minutes(m), m an i64 as ParseI64 keeps it: the duration,
\* or ok = FALSE where the call panics ("Duration::minutes out of bounds").
DurationMinutes(m) ==
    IF \/ Len(m.digits) > Len(DURATION_MAX_MINUTES_DIGITS)
       \/ /\ Len(m.digits) = Len(DURATION_MAX_MINUTES_DIGITS)
          /\ DigitsLess(DURATION_MAX_MINUTES_DIGITS, m.digits)
    THEN [ok |-> FALSE]
    ELSE [ok |-> TRUE, neg |-> m.neg, digits |-> m.digits]

RECURSIVE ToDaysMins(_, _, _)
\* the digits of a number of minutes as whole days and minutes
ToDaysMins(ds, q, r) ==
    IF ds = <<>> THEN [days |-> q, mins |-> r]
    ELSE LET x == r * 10 + DigitVal(ds[1])
         IN  ToDaysMins(Tail(ds), q * 10 + x \div 1440, x % 1440)

\* the longest digit string of minutes that can stay within the dates
\* chrono represents (10^12 minutes are more than 1.9 million years)
MAX_SPAN_DIGITS == 12

\* NaiveDateTime + Duration: Some(date time), or None where the operator
\* panics ("`NaiveDateTime + Duration` overflowed").
AddDuration(dt, d) ==
    IF Len(d.digits) > MAX_SPAN_DIGITS THEN None
    ELSE LET dm   == ToDaysMins(d.digits, 0, 0)
             sign == IF d.neg THEN -1 ELSE 1
             s2   == dt.secs + sign * dm.mins * 60
             day  == dt.days + sign * dm.days + s2 \div 86400
         IN  IF day < MIN_DATE_DAYS \/ day > MAX_DATE_DAYS THEN None
             ELSE Some([days |-> day, secs |-> s2 % 86400])

\* (a - b).num_minutes(): whole minutes, truncated towards zero
NumMinutes(a, b) ==
    LET dd == a.days - b.days
        ds == a.secs - b.secs
        fl == dd * 1440 + ds \div 60
    IN  IF dd > 0 \/ (dd = 0 /\ ds >= 0) \/ ds % 60 = 0 THEN fl ELSE fl + 1

DigitChar(n) ==
    CASE n = 0 -> "0" [] n = 1 -> "1" [] n = 2 -> "2" [] n = 3 -> "3"
      [] n = 4 -> "4" [] n = 5 -> "5" [] n = 6 -> "6" [] n = 7 -> "7"
      [] n = 8 -> "8" [] n = 9 -> "9"

TwoDigits(n) == <<DigitChar(n \div 10), DigitChar(n % 10)>>

\* prediction.format("%I:%M %p"): the 12-hour clock, zero padded
Format12h(dt) ==
    LET h   == dt.secs \div 3600
        mi  == (dt.secs % 3600) \div 60
        h12 == IF h % 12 = 0 THEN 12 ELSE h % 12
    IN  TwoDigits(h12) \o <<":">> \o TwoDigits(mi) \o <<" ">>
            \o (IF h < 12 THEN <<"A", "M">> ELSE <<"P", "M">>)

-----------------------------------------------------------------------------
(* What the providers may answer.  A body is [json |-> FALSE] when it does  *)
(* not deserialize into the type the code asks for, and otherwise carries   *)
(* the deserialized value; of each struct the fields the code reads.        *)

MaxStops == 2        \* stops the bus provider returns over one run, at most

MaxEstimates == 3    \* estimates the rail provider returns over one run, at most

MaxTicks == 1        \* times the clock is seen to advance during one run, at most

TICK_SECS == 45      \* the step of the clock

START == DateTime(2024, 1, 1, 23, 59, 30)

Malformed == [json |-> FALSE]

Json(v) == [json |-> TRUE, value |-> v]

ActStop(id, name) == [stop_id |-> id, name |-> name]

ActTrip(id, direction) == [trip_id |-> id, direction |-> direction]

ActPrediction(route_name, trip_id, departure) ==
    [route_name |-> route_name, trip_id |-> trip_id, predicted_departure |-> departure]

BartEstimate(minutes, color) == [minutes |-> minutes, color |-> color]

BartEtd(destination, estimate) == [destination |-> destination, estimate |-> estimate]

BartStation(name, etd) == [name |-> name, etd |-> etd]

TS_MORNING == <<"2","0","2","4","-","0","1","-","0","1","T","0","8",":","0","5",":","0","0">>

TS_NIGHT == <<"2","0","2","4","-","0","1","-","0","2","T","0","0",":","1","0",":","0","0">>

TS_NO_T == <<"2","0","2","4","-","0","1","-","0","2"," ","0","0",":","1","0",":","0","0">>

TS_MONTH_13 == <<"2","0","2","4","-","1","3","-","0","2","T","0","0",":","1","0",":","0","0">>

LEAVING == <<"L","e","a","v","i","n","g">>

StopBodies ==
    { Malformed,
      Json(<<>>),
      Json(<<ActStop(51, "Ashby Av")>>),
      Json(<<ActStop(51, "Ashby Av"), ActStop(52, "College Av")>>) }

TripBodies ==
    { Malformed,
      Json(<<>>),
      Json(<<ActTrip(7, "Northbound"), ActTrip(7, "Southbound")>>),
      Json(<<ActTrip(7, "Northbound"), ActTrip(8, "Southbound")>>) }

Statuses == {200, 404}

PredictionBodies ==
    { Malformed,
      Json(<<>>),
      Json(<<ActPrediction("51B", 7, TS_NIGHT)>>),
      Json(<<ActPrediction("27", 9, TS_MORNING), ActPrediction("51B", 8, TS_NIGHT)>>),
      Json(<<ActPrediction("27", 7, TS_MORNING), ActPrediction("27", 8, TS_NIGHT)>>),
      Json(<<ActPrediction("E", 7, TS_NO_T)>>),
      Json(<<ActPrediction("E", 8, TS_NIGHT), ActPrediction("E", 7, TS_MONTH_13)>>) }

BartBodies ==
    { Malformed,
      Json(<<>>),
      Json(<<BartStation("Rockridge", <<>>)>>),
      Json(<<BartStation("Rockridge",
               << BartEtd("Antioch", <<BartEstimate(LEAVING, "YELLOW"),
                                       BartEstimate(<<"5">>, "YELLOW")>>),
                  BartEtd("SFO Airport", <<BartEstimate(<<"1","2">>, "RED")>>) >>)>>),
      Json(<<BartStation("Ashby", <<BartEtd("Richmond", <<BartEstimate(<<"-","3">>, "ORANGE")>>)>>),
             BartStation("Rockridge", <<BartEtd("Antioch", <<BartEstimate(<<"+","0","7">>, "YELLOW")>>)>>)>>),
      Json(<<BartStation("Ashby", <<BartEtd("Richmond", <<BartEstimate(<<"5">>, "RED"),
                                                          BartEstimate(<<"5"," ","m","i","n">>, "RED")>>)>>)>>),
      Json(<<BartStation("Ashby", <<BartEtd("Berryessa", <<BartEstimate(<<>>, "GREEN")>>)>>)>>),
      Json(<<BartStation("Ashby", <<BartEtd("Berryessa", <<BartEstimate(<<"9","9","9","9","9","9","9","9","9","9","9","9">>, "GREEN")>>)>>)>>),
      Json(<<BartStation("Ashby", <<BartEtd("Berryessa", <<BartEstimate(<<"9","2","2","3","3","7","2","0","3","6","8","5","4","7","7","5","8","0","7">>, "GREEN")>>)>>)>>),
      Json(<<BartStation("Ashby", <<BartEtd("Berryessa", <<BartEstimate(<<"9","2","2","3","3","7","2","0","3","6","8","5","4","7","7","5","8","0","8">>, "GREEN")>>)>>)>>) }

-----------------------------------------------------------------------------
(* fetch_act *)

StopInfo(route, name, direction, prediction) ==
    [route |-> route, name |-> name, direction |-> direction, prediction |-> prediction]

\* the record of a stop without data (lines 185-190 and 221-226)
NoPrediction(route, stop) == StopInfo(route.name, stop.name, None, None)

\* Insert, but an entry already in the map is kept
InsertKeepsFirst(map, key, value) ==
    [x \in DOMAIN map \cup {key} |-> IF x \in DOMAIN map THEN map[x] ELSE value]

\* HashMap::insert
Insert(map, key, value) ==
    [x \in DOMAIN map \cup {key} |-> IF x = key THEN value ELSE map[x]]

RECURSIVE TripsFold(_, _)
TripsFold(ts, acc) ==
    IF ts = <<>> THEN acc
    ELSE TripsFold(Tail(ts), Insert(acc, ts[1].trip_id, ts[1]))

\* trips_by_id: the fold of the trips into a map
TripsById(ts) == TripsFold(ts, <<>>)

\* RouteMatches, but without the test of the route
RouteMatchesAny(prediction, route) == TRUE

\* the test that lets a prediction through (line 196 negated)
RouteMatches(prediction, route) == prediction.route_name = route.name

\* Joined, but a departure that does not parse gives a record without time
JoinedLenient(route, stop, trip, prediction) ==
    [panic |-> FALSE,
     info  |-> StopInfo(route.name, stop.name, Some(trip.direction),
                        ParseDateTime(prediction.predicted_departure))]

\* the record of a prediction joined to its trip; the unwrap panics when
\* the predicted departure does not parse
Joined(route, stop, trip, prediction) ==
    LET parsed == ParseDateTime(prediction.predicted_departure)
    IN  IF parsed = None THEN [panic |-> TRUE]
        ELSE [panic |-> FALSE,
              info  |-> StopInfo(route.name, stop.name, Some(trip.direction), parsed)]

RECURSIVE PredictionLoopSkipsUnknown(_, _, _, _, _, _)
\* PredictionLoop, but a prediction without trip is passed over
PredictionLoopSkipsUnknown(route, stop, trips_by_id, predictions, pushed, acc) ==
    IF predictions = <<>>
    THEN [panic |-> FALSE,
          info  |-> IF pushed THEN acc ELSE Append(acc, NoPrediction(route, stop))]
    ELSE LET prediction == predictions[1]
         IN  IF ~RouteMatches(prediction, route)
                  \/ prediction.trip_id \notin DOMAIN trips_by_id
             THEN PredictionLoopSkipsUnknown(route, stop, trips_by_id, Tail(predictions),
                                             pushed, acc)
             ELSE LET j == Joined(route, stop, trips_by_id[prediction.trip_id], prediction)
                  IN  IF j.panic THEN [panic |-> TRUE, info |-> acc]
                      ELSE PredictionLoopSkipsUnknown(route, stop, trips_by_id,
                                                      Tail(predictions), TRUE,
                                                      Append(acc, j.info))

RECURSIVE PredictionLoop(_, _, _, _, _, _)
\* `for prediction in &predictions` and the `if !pushed` after it: the
\* records pushed, and whether the loop panicked before its end
PredictionLoop(route, stop, trips_by_id, predictions, pushed, acc) ==
    IF predictions = <<>>
    THEN [panic |-> FALSE,
          info  |-> IF pushed THEN acc ELSE Append(acc, NoPrediction(route, stop))]
    ELSE LET prediction == predictions[1]
         IN  IF ~RouteMatches(prediction, route)
             THEN PredictionLoop(route, stop, trips_by_id, Tail(predictions), pushed, acc)
             ELSE IF prediction.trip_id \in DOMAIN trips_by_id
             THEN LET j == Joined(route, stop, trips_by_id[prediction.trip_id], prediction)
                  IN  IF j.panic THEN [panic |-> TRUE, info |-> acc]
                      ELSE PredictionLoop(route, stop, trips_by_id, Tail(predictions),
                                          TRUE, Append(acc, j.info))
             ELSE [panic |-> TRUE, info |-> acc]

\* issuing a request: client.get(url).send()
Issue(request) ==
    /\ requests' = Append(requests, request)
    /\ inflight' = "sent"

NetError(of) == [kind |-> "neterr", of |-> of]

HeadOf(of, status) == [kind |-> "head", of |-> of, status |-> status]

BodyOf(of, body) == [kind |-> "body", of |-> of, body |-> body]

\* send().await? : the status line and the headers arrive, or the request fails
Send(of, next) ==
    \/ /\ \E status \in Statuses : last' = HeadOf(of, status)
       /\ inflight' = "head"
       /\ pc' = next
    \/ /\ last' = NetError(of)
       /\ inflight' = "idle"
       /\ pc' = "error"

StopsSoFar == Cardinality({i \in 1..Len(requests) : requests[i].kind = "tripstoday"})

\* top of `for route in ACT_ROUTES`: the nearby-stops request
StopsRequest ==
    /\ pc = "act_route"
    /\ ri <= Len(ACT_ROUTES)
    /\ Issue([kind |-> "stops", route |-> ACT_ROUTES[ri].name,
              radius |-> ACT_ROUTES[ri].radius])
    /\ pc' = "stops_send"
    /\ UNCHANGED <<ri, stops, si, trips, sti, estimates, act_stops, bart_stops, k,
                   output, now, last>>

StopsSend ==
    /\ pc = "stops_send"
    /\ Send("stops", "stops_json")
    /\ UNCHANGED <<ri, stops, si, trips, sti, estimates, act_stops, bart_stops, k,
                   output, now, requests>>

\* .json().await? into Vec<ActStop>
StopsJson ==
    /\ pc = "stops_json"
    /\ \E body \in StopBodies :
          /\ body.json => StopsSoFar + Len(body.value) <= MaxStops
          /\ last' = BodyOf("stops", body)
          /\ inflight' = "idle"
          /\ IF body.json
             THEN /\ stops' = body.value
                  /\ si' = 1
                  /\ pc' = "act_stop"
             ELSE /\ pc' = "error"
                  /\ UNCHANGED <<stops, si>>
    /\ UNCHANGED <<ri, trips, sti, estimates, act_stops, bart_stops, k, output, now,
                   requests>>

\* top of `for stop in stops`: the trips-today request
TripsRequest ==
    /\ pc = "act_stop"
    /\ si <= Len(stops)
    /\ Issue([kind |-> "tripstoday", stop_id |-> stops[si].stop_id])
    /\ pc' = "trips_send"
    /\ UNCHANGED <<ri, stops, si, trips, sti, estimates, act_stops, bart_stops, k,
                   output, now, last>>

\* end of `for stop in stops`: on to the next route
NextRoute ==
    /\ pc = "act_stop"
    /\ si > Len(stops)
    /\ ri' = ri + 1
    /\ pc' = "act_route"
    /\ UNCHANGED <<stops, si, trips, sti, estimates, act_stops, bart_stops, k, output,
                   now, requests, inflight, last>>

TripsSend ==
    /\ pc = "trips_send"
    /\ Send("tripstoday", "trips_json")
    /\ UNCHANGED <<ri, stops, si, trips, sti, estimates, act_stops, bart_stops, k,
                   output, now, requests>>

\* TripsJson, but a body that does not deserialize counts as no trips
TripsJsonLenient ==
    /\ pc = "trips_json"
    /\ \E body \in TripBodies :
          /\ last' = BodyOf("tripstoday", body)
          /\ inflight' = "idle"
          /\ trips' = IF body.json THEN body.value ELSE <<>>
          /\ pc' = "predictions_request"
    /\ UNCHANGED <<ri, stops, si, sti, estimates, act_stops, bart_stops, k, output, now,
                   requests>>

\* .json().await? into Vec<ActTrip>
TripsJson ==
    /\ pc = "trips_json"
    /\ \E body \in TripBodies :
          /\ last' = BodyOf("tripstoday", body)
          /\ inflight' = "idle"
          /\ IF body.json
             THEN /\ trips' = body.value
                  /\ pc' = "predictions_request"
             ELSE /\ pc' = "error"
                  /\ UNCHANGED trips
    /\ UNCHANGED <<ri, stops, si, sti, estimates, act_stops, bart_stops, k, output, now,
                   requests>>

\* PredictionsRequest, but for the first stop of the route
PredictionsRequestFirstStop ==
    /\ pc = "predictions_request"
    /\ Issue([kind |-> "predictions", stop_id |-> stops[1].stop_id])
    /\ pc' = "predictions_send"
    /\ UNCHANGED <<ri, stops, si, trips, sti, estimates, act_stops, bart_stops, k,
                   output, now, last>>

\* the predictions request of the stop
PredictionsRequest ==
    /\ pc = "predictions_request"
    /\ Issue([kind |-> "predictions", stop_id |-> stops[si].stop_id])
    /\ pc' = "predictions_send"
    /\ UNCHANGED <<ri, stops, si, trips, sti, estimates, act_stops, bart_stops, k,
                   output, now, last>>

\* PredictionsSend, but a status other than 200 is an error that aborts the run
PredictionsSendStrict ==
    /\ pc = "predictions_send"
    /\ \/ \E status \in Statuses :
             /\ last' = HeadOf("predictions", status)
             /\ IF status # OK
                THEN /\ inflight' = "idle"
                     /\ pc' = "error"
                ELSE /\ inflight' = "head"
                     /\ pc' = "predictions_json"
       \/ /\ last' = NetError("predictions")
          /\ inflight' = "idle"
          /\ pc' = "error"
    /\ UNCHANGED <<ri, stops, si, trips, sti, estimates, act_stops, bart_stops, k, output,
                   now, requests>>

\* send().await? and the test of the status: a status other than 200 pushes
\* the record without data, drops the response unread and continues
PredictionsSend ==
    /\ pc = "predictions_send"
    /\ \/ \E status \in Statuses :
             /\ last' = HeadOf("predictions", status)
             /\ IF status # OK
                THEN /\ act_stops' = Append(act_stops, NoPrediction(ACT_ROUTES[ri], stops[si]))
                     /\ inflight' = "idle"
                     /\ si' = si + 1
                     /\ pc' = "act_stop"
                ELSE /\ inflight' = "head"
                     /\ pc' = "predictions_json"
                     /\ UNCHANGED <<act_stops, si>>
       \/ /\ last' = NetError("predictions")
          /\ inflight' = "idle"
          /\ pc' = "error"
          /\ UNCHANGED <<act_stops, si>>
    /\ UNCHANGED <<ri, stops, trips, sti, estimates, bart_stops, k, output, now, requests>>

\* .json().await? into Vec<ActPrediction>, then the loop over the predictions
PredictionsJson ==
    /\ pc = "predictions_json"
    /\ \E body \in PredictionBodies :
          /\ last' = BodyOf("predictions", body)
          /\ inflight' = "idle"
          /\ IF body.json
             THEN LET r == PredictionLoop(ACT_ROUTES[ri], stops[si], TripsById(trips),
                                          body.value, FALSE, <<>>)
                  IN  /\ act_stops' = act_stops \o r.info
                      /\ IF r.panic
                         THEN /\ pc' = "panic"
                              /\ UNCHANGED si
                         ELSE /\ pc' = "act_stop"
                              /\ si' = si + 1
             ELSE /\ pc' = "error"
                  /\ UNCHANGED <<act_stops, si>>
    /\ UNCHANGED <<ri, stops, trips, sti, estimates, bart_stops, k, output, now, requests>>

\* end of `for route in ACT_ROUTES`: fetch_act returns Ok, main calls fetch_bart
ActReturn ==
    /\ pc = "act_route"
    /\ ri > Len(ACT_ROUTES)
    /\ pc' = "bart_station"
    /\ UNCHANGED <<ri, stops, si, trips, sti, estimates, act_stops, bart_stops, k,
                   output, now, requests, inflight, last>>

-----------------------------------------------------------------------------
(* fetch_bart *)

RECURSIVE FlattenEstimates(_, _, _)
FlattenEstimates(station, etd, es) ==
    IF es = <<>> THEN <<>>
    ELSE <<[name |-> station.name, destination |-> etd.destination,
            minutes |-> es[1].minutes, color |-> es[1].color]>>
         \o FlattenEstimates(station, etd, Tail(es))

RECURSIVE FlattenEtds(_, _)
FlattenEtds(station, etds) ==
    IF etds = <<>> THEN <<>>
    ELSE FlattenEstimates(station, etds[1], etds[1].estimate)
         \o FlattenEtds(station, Tail(etds))

RECURSIVE Flatten(_)
\* the visits of the three nested loops over a response, in their order
Flatten(stations) ==
    IF stations = <<>> THEN <<>>
    ELSE FlattenEtds(stations[1], stations[1].etd) \o Flatten(Tail(stations))

\* Minutes, but without the case of "Leaving"
MinutesNoLeaving(estimate) == ParseI64(estimate.minutes)

\* `let minutes = ...`: the i64, or ok = FALSE where the `?` returns the Err
Minutes(estimate) ==
    IF estimate.minutes = LEAVING
    THEN [ok |-> TRUE, neg |-> FALSE, digits |-> <<"0">>]
    ELSE ParseI64(estimate.minutes)

\* `let prediction = ...`: Some(date time), or None where the expression panics
Prediction(clock, minutes) ==
    LET d == DurationMinutes(minutes)
    IN  IF d.ok THEN AddDuration(clock, d) ELSE None

\* EstimateInfo, but without the direction
EstimateInfoNoDirection(e, prediction) == StopInfo(e.color, e.name, None, prediction)

\* the record of an estimate (lines 137-142)
EstimateInfo(e, prediction) == StopInfo(e.color, e.name, Some(e.destination), prediction)

Elapsed == (now.days - START.days) * 86400 + now.secs - START.secs

\* what a read of the clock may return: the time of the last read or a later one
ClockReads ==
    {now} \cup
    (IF Elapsed < MaxTicks * TICK_SECS
     THEN {[days |-> now.days + (now.secs + TICK_SECS) \div 86400,
            secs |-> (now.secs + TICK_SECS) % 86400]}
     ELSE {})

\* top of `for station in BART_STOPS`: the estimated-departures request
BartRequest ==
    /\ pc = "bart_station"
    /\ sti <= Len(BART_STOPS)
    /\ Issue([kind |-> "etd", orig |-> BART_STOPS[sti]])
    /\ pc' = "bart_send"
    /\ UNCHANGED <<ri, stops, si, trips, sti, estimates, act_stops, bart_stops, k,
                   output, now, last>>

BartSend ==
    /\ pc = "bart_send"
    /\ Send("etd", "bart_json")
    /\ UNCHANGED <<ri, stops, si, trips, sti, estimates, act_stops, bart_stops, k,
                   output, now, requests>>

\* .json().await? into BartResponse
BartJson ==
    /\ pc = "bart_json"
    /\ \E body \in BartBodies :
          /\ body.json =>
                Len(bart_stops) + Len(Flatten(body.value)) <= MaxEstimates
          /\ last' = BodyOf("etd", body)
          /\ inflight' = "idle"
          /\ IF body.json
             THEN /\ estimates' = Flatten(body.value)
                  /\ pc' = "bart_estimate"
             ELSE /\ pc' = "error"
                  /\ UNCHANGED estimates
    /\ UNCHANGED <<ri, stops, si, trips, sti, act_stops, bart_stops, k, output, now,
                   requests>>

\* one pass of the body of `for estimate in etd.estimate`
Estimate ==
    /\ pc = "bart_estimate"
    /\ estimates # <<>>
    /\ LET e == estimates[1]
           m == Minutes(e)
       IN  IF ~m.ok
           THEN /\ pc' = "error"
                /\ UNCHANGED <<estimates, bart_stops, now>>
           ELSE \E clock \in ClockReads :
                   /\ now' = clock
                   /\ LET prediction == Prediction(clock, m)
                      IN  IF prediction = None
                          THEN /\ pc' = "panic"
                               /\ UNCHANGED <<estimates, bart_stops>>
                          ELSE /\ bart_stops' = Append(bart_stops, EstimateInfo(e, prediction))
                               /\ estimates' = Tail(estimates)
                               /\ pc' = "bart_estimate"
    /\ UNCHANGED <<ri, stops, si, trips, sti, act_stops, k, output, requests, inflight,
                   last>>

\* the nested loops are through: on to the next station
NextStation ==
    /\ pc = "bart_estimate"
    /\ estimates = <<>>
    /\ sti' = sti + 1
    /\ pc' = "bart_station"
    /\ UNCHANGED <<ri, stops, si, trips, estimates, act_stops, bart_stops, k, output,
                   now, requests, inflight, last>>

\* end of `for station in BART_STOPS`: fetch_bart returns Ok, main concatenates
BartReturn ==
    /\ pc = "bart_station"
    /\ sti > Len(BART_STOPS)
    /\ k' = 1
    /\ pc' = "print"
    /\ UNCHANGED <<ri, stops, si, trips, sti, estimates, act_stops, bart_stops, output,
                   now, requests, inflight, last>>

-----------------------------------------------------------------------------
(* main *)

\* AllStops, but the rail records first
AllStopsRailFirst == bart_stops \o act_stops

\* [act_stops, bart_stops].concat()
AllStops == act_stops \o bart_stops

\* the line println! writes for a record, the clock reading `clock`
Line(stop, clock) ==
    IF stop.prediction # None
    THEN [form      |-> "{} {}: {} at {} ({}m away)",
          route     |-> stop.route,
          direction |-> stop.direction[1],
          name      |-> stop.name,
          time      |-> Format12h(stop.prediction[1]),
          minutes   |-> NumMinutes(stop.prediction[1], clock)]
    ELSE [form  |-> "{}: {} (no prediction)",
          route |-> stop.route,
          name  |-> stop.name]

\* one pass of the body of `for stop in stops`
PrintLine ==
    /\ pc = "print"
    /\ k <= Len(AllStops)
    /\ LET stop == AllStops[k]
       IN  IF stop.prediction # None /\ stop.direction = None
           THEN /\ pc' = "panic"
                /\ UNCHANGED <<k, output, now>>
           ELSE \E clock \in (IF stop.prediction # None THEN ClockReads ELSE {now}) :
                   /\ now' = clock
                   /\ output' = Append(output, Line(stop, clock))
                   /\ k' = k + 1
                   /\ pc' = "print"
    /\ UNCHANGED <<ri, stops, si, trips, sti, estimates, act_stops, bart_stops,
                   requests, inflight, last>>

\* end of the loop: main returns Ok(())
Finish ==
    /\ pc = "print"
    /\ k > Len(AllStops)
    /\ pc' = "done"
    /\ UNCHANGED <<ri, stops, si, trips, sti, estimates, act_stops, bart_stops, k,
                   output, now, requests, inflight, last>>

-----------------------------------------------------------------------------

Init ==
    /\ pc = "act_route"
    /\ ri = 1
    /\ stops = <<>>
    /\ si = 1
    /\ trips = <<>>
    /\ sti = 1
    /\ estimates = <<>>
    /\ act_stops = <<>>
    /\ bart_stops = <<>>
    /\ k = 1
    /\ output = <<>>
    /\ now = START
    /\ requests = <<>>
    /\ inflight = "idle"
    /\ last = [kind |-> "none"]

Next ==
    \/ StopsRequest
    \/ StopsSend
    \/ StopsJson
    \/ TripsRequest
    \/ NextRoute
    \/ TripsSend
    \/ TripsJson
    \/ PredictionsRequest
    \/ PredictionsSend
    \/ PredictionsJson
    \/ ActReturn
    \/ BartRequest
    \/ BartSend
    \/ BartJson
    \/ Estimate
    \/ NextStation
    \/ BartReturn
    \/ PrintLine
    \/ Finish

Spec == Init /\ [][Next]_vars

-----------------------------------------------------------------------------
(* Vocabulary of the properties. *)

Placeholder(routeName, stopName) ==
    [route |-> routeName, name |-> stopName, direction |-> <<>>, prediction |-> <<>>]

\* the records a step appends to fetch_act's stops_info
Pushed == SubSeq(act_stops', Len(act_stops) + 1, Len(act_stops'))

\* the predictions of a body that carry the name of the route under query
MatchingOf(predictions) ==
    SelectSeq(predictions, LAMBDA p : p.route_name = ACT_ROUTES[ri].name)

HasTrip(id) == \E i \in 1..Len(trips) : trips[i].trip_id = id

\* the trip the map keeps for an identifier: the last one returned with it
TripOf(id) ==
    trips[CHOOSE i \in 1..Len(trips) :
            /\ trips[i].trip_id = id
            /\ \A j \in (i + 1)..Len(trips) : trips[j].trip_id # id]

\* the predicted departures of the inputs that are well formed, by value
WellFormed == {TS_MORNING, TS_NIGHT}

ValueOf(departure) ==
    IF departure = TS_MORNING
    THEN [days |-> 19723, secs |-> 8 * 3600 + 5 * 60]
    ELSE [days |-> 19724, secs |-> 10 * 60]

\* a step that deserializes a predictions body and runs the loop over it
PredictionsStep ==
    /\ pc = "predictions_json"
    /\ last'.kind = "body"
    /\ last'.body.json

\* C1: a predictions response with a status other than 200 appends exactly
\* one record for the stop, with the queried route and the stop's name and
\* neither direction nor prediction, whatever the trips of the stop are, and
\* the run goes on with the next stop of the same route.
C1_NonSuccessPlaceholder ==
    [][ (pc = "predictions_send" /\ last'.kind = "head" /\ last'.status # 200)
          => /\ act_stops' = Append(act_stops,
                                    Placeholder(ACT_ROUTES[ri].name, stops[si].name))
             /\ pc' = "act_stop"
             /\ si' = si + 1
             /\ ri' = ri
             /\ stops' = stops
             /\ output' = output ]_vars

C1_Witness ==
    /\ pc = "trips_send"
    /\ si = 2
    /\ last.kind = "head" /\ last.of = "predictions" /\ last.status = 404
    /\ Len(trips) = 2
    /\ act_stops = <<Placeholder(ACT_ROUTES[ri].name, stops[1].name)>>

\* C2: a prediction of another route than the one under query contributes no
\* record and cannot end the process, even when its trip is not among the
\* stop's trips; every record pushed carries the route under query.
C2_OtherRouteIgnored ==
    [][ PredictionsStep =>
          LET matching == MatchingOf(last'.body.value)
          IN  /\ \A i \in 1..Len(Pushed) : Pushed[i].route = ACT_ROUTES[ri].name
              /\ Cardinality({i \in 1..Len(Pushed) : Pushed[i].prediction # <<>>})
                    <= Len(matching)
              /\ pc' = "panic" =>
                    \E i \in 1..Len(matching) :
                       \/ ~HasTrip(matching[i].trip_id)
                       \/ matching[i].predicted_departure \notin WellFormed
              /\ matching = <<>> =>
                    /\ pc' = "act_stop"
                    /\ Pushed = <<Placeholder(ACT_ROUTES[ri].name, stops[si].name)>> ]_vars

C2_Witness ==
    /\ pc = "act_stop"
    /\ last.kind = "body" /\ last.of = "predictions" /\ last.body.json
    /\ \E i \in 1..Len(last.body.value) :
          /\ last.body.value[i].route_name # ACT_ROUTES[ri].name
          /\ ~HasTrip(last.body.value[i].trip_id)
    /\ Len(act_stops) = 1
    /\ act_stops[1].prediction # <<>>

\* C3: a prediction of the route under query whose trip is not among the
\* stop's trips ends the process there: no request is issued afterwards and
\* nothing is printed, not even for the stops handled before.
C3_MissingTripTerminates ==
    [][ /\ ( /\ PredictionsStep
             /\ \E i \in 1..Len(last'.body.value) :
                   /\ last'.body.value[i].route_name = ACT_ROUTES[ri].name
                   /\ ~HasTrip(last'.body.value[i].trip_id) )
           => (pc' = "panic" /\ output' = <<>> /\ requests' = requests)
        /\ pc = "panic" => (pc' = "panic" /\ requests' = requests /\ output' = output)
      ]_vars

C3_Witness ==
    /\ pc = "panic"
    /\ last.kind = "body" /\ last.of = "predictions"
    /\ \E i \in 1..Len(last.body.value) :
          /\ last.body.value[i].route_name = ACT_ROUTES[ri].name
          /\ ~HasTrip(last.body.value[i].trip_id)
          /\ \A j \in 1..(i - 1) :
                last.body.value[j].route_name = ACT_ROUTES[ri].name
                   => last.body.value[j].predicted_departure \in WellFormed
    /\ si = 2
    /\ Len(act_stops) >= 1
    /\ act_stops[1].prediction # <<>>
    /\ act_stops[1].name = stops[1].name

\* a failure of the network or of a deserialization
Failure == last.kind = "neterr" \/ (last.kind = "body" /\ ~last.body.json)

\* C4: a request that fails or a body that does not deserialize aborts the
\* run with an error at once: no request follows, nothing is printed; and
\* nothing is printed before fetch_act and fetch_bart have both returned.
C4_FailureAborts ==
    /\ [](Failure => (pc = "error" /\ output = <<>> /\ inflight = "idle"))
    /\ [](output # <<>> => (ri > Len(ACT_ROUTES) /\ sti > Len(BART_STOPS)
                             /\ pc \in {"print", "done"}))
    /\ [][pc = "error" => (pc' = "error" /\ requests' = requests /\ output' = output)]_vars

C4_Witness ==
    /\ pc = "error"
    /\ last.kind = "body" /\ last.of = "etd" /\ ~last.body.json
    /\ sti = 2
    /\ Len(act_stops) = 2
    /\ Len(bart_stops) >= 1

\* C5: a predictions body with status 200 whose loop runs to its end appends
\* one record per prediction of the route under query, in the order of the
\* predictions, each with the direction of the trip of that identifier and
\* the parsed departure, and no record without data; or, when no prediction
\* is of the route, exactly one record without data.
C5_RecordsPerPrediction ==
    [][ (PredictionsStep /\ pc' # "panic") =>
          LET matching == MatchingOf(last'.body.value)
          IN  /\ pc' = "act_stop" /\ si' = si + 1
              /\ act_stops' = act_stops \o Pushed
              /\ IF matching = <<>>
                 THEN Pushed = <<Placeholder(ACT_ROUTES[ri].name, stops[si].name)>>
                 ELSE /\ Len(Pushed) = Len(matching)
                      /\ \A i \in 1..Len(matching) :
                            Pushed[i] =
                              [route      |-> ACT_ROUTES[ri].name,
                               name       |-> stops[si].name,
                               direction  |-> <<TripOf(matching[i].trip_id).direction>>,
                               prediction |-> <<ValueOf(matching[i].predicted_departure)>>]
      ]_vars

C5_Witness ==
    /\ pc = "act_stop"
    /\ last.kind = "body" /\ last.of = "predictions" /\ last.body.json
    /\ Len(MatchingOf(last.body.value)) = 2
    /\ Len(act_stops) = 2
    /\ act_stops[1].direction = <<"Northbound">>
    /\ act_stops[2].direction = <<"Southbound">>
    /\ act_stops[1].prediction # act_stops[2].prediction

RECURSIVE IntOf(_)
\* the number a short string of digits writes
IntOf(ds) == IF ds = <<>> THEN 0 ELSE IntOf(SubSeq(ds, 1, Len(ds) - 1)) * 10
                                        + DigitVal(ds[Len(ds)])

\* a date time n minutes after (before, for n < 0) another
PlusMinutes(clock, n) ==
    [days |-> clock.days + (clock.secs + 60 * n) \div 86400,
     secs |-> (clock.secs + 60 * n) % 86400]

\* a pass of the loop body of fetch_bart over the estimate e
EstimateStep == pc = "bart_estimate" /\ estimates # <<>>

EstimateRecord(e, time) ==
    [route |-> e.color, name |-> e.name, direction |-> <<e.destination>>,
     prediction |-> <<time>>]

\* the pass appends exactly the record of the estimate, n minutes from the
\* reading of the clock
Appends(e, n) ==
    /\ bart_stops' = Append(bart_stops, EstimateRecord(e, PlusMinutes(now', n)))
    /\ estimates' = Tail(estimates)
    /\ pc' = "bart_estimate"

\* C6 as stated: every estimate whose minutes field is "Leaving" or an
\* integer yields exactly one record, and any other minutes field aborts the
\* run with an error.
C6_Original ==
    [][ EstimateStep =>
          LET e == estimates[1]
          IN  IF e.minutes = LEAVING \/ ParseI64(e.minutes).ok
              THEN /\ Len(bart_stops') = Len(bart_stops) + 1
                   /\ bart_stops'[Len(bart_stops')].route = e.color
                   /\ bart_stops'[Len(bart_stops')].name = e.name
                   /\ bart_stops'[Len(bart_stops')].direction = <<e.destination>>
                   /\ pc' = "bart_estimate"
              ELSE pc' = "error" /\ bart_stops' = bart_stops ]_vars

\* C6, amended: an estimate whose minutes field is "Leaving" or an integer m
\* yields exactly one record, of the time of the clock reading plus m
\* minutes (plus 0 for "Leaving"), with the colour as route, the station
\* name and the destination as direction, provided chrono can represent
\* that many minutes and that time; where it cannot, the process panics and
\* no record is produced.  Any other minutes field aborts the run with an
\* error and no record.
C6_EstimateRecord ==
    [][ EstimateStep =>
          LET e == estimates[1]
              m == ParseI64(e.minutes)
          IN  IF e.minutes = LEAVING THEN Appends(e, 0)
              ELSE IF ~m.ok THEN pc' = "error" /\ bart_stops' = bart_stops /\ output' = <<>>
              ELSE IF Len(m.digits) <= 6
              THEN Appends(e, IF m.neg THEN 0 - IntOf(m.digits) ELSE IntOf(m.digits))
              ELSE IF Prediction(now', m) = None
              THEN pc' = "panic" /\ bart_stops' = bart_stops /\ output' = <<>>
              ELSE Len(bart_stops') = Len(bart_stops) + 1 ]_vars

C6_Witness ==
    /\ pc = "panic"
    /\ last.of = "etd"
    /\ estimates # <<>>
    /\ ParseI64(estimates[1].minutes).ok
    /\ Len(bart_stops) = 2
    /\ bart_stops[1].prediction # bart_stops[2].prediction
    /\ bart_stops[1].prediction[1].days < bart_stops[2].prediction[1].days

\* the predicted departures of the inputs that are malformed
MalformedDepartures == {TS_NO_T, TS_MONTH_13}

\* C7: a malformed predicted departure of a prediction of the route under
\* query whose trip is known ends the process with nothing printed; no
\* record without a time and no record without data is pushed for the stop.
C7_MalformedDepartureFails ==
    [][ ( /\ PredictionsStep
          /\ \E i \in 1..Len(last'.body.value) :
                /\ last'.body.value[i].route_name = ACT_ROUTES[ri].name
                /\ HasTrip(last'.body.value[i].trip_id)
                /\ last'.body.value[i].predicted_departure \in MalformedDepartures )
          => /\ pc' = "panic"
             /\ output' = <<>>
             /\ \A i \in 1..Len(Pushed) :
                   /\ Pushed[i].prediction # <<>>
                   /\ Pushed[i].direction # <<>>
                   /\ \E j \in 1..Len(last'.body.value) :
                         /\ last'.body.value[j].predicted_departure \in WellFormed
                         /\ Pushed[i].prediction =
                               <<ValueOf(last'.body.value[j].predicted_departure)>> ]_vars

C7_Witness ==
    /\ pc = "panic"
    /\ last.kind = "body" /\ last.of = "predictions"
    /\ Len(last.body.value) = 2
    /\ last.body.value[2].predicted_departure = TS_MONTH_13
    /\ last.body.value[2].route_name = ACT_ROUTES[ri].name
    /\ HasTrip(last.body.value[1].trip_id) /\ HasTrip(last.body.value[2].trip_id)
    /\ Len(act_stops) = 1
    /\ act_stops[1].prediction = <<ValueOf(TS_NIGHT)>>

KindsBefore(i, kind) == Cardinality({j \in 1..i : requests[j].kind = kind})

OfKind(kind) == SelectSeq(requests, LAMBDA r : r.kind = kind)

\* the stops whose trips were requested since the last nearby-stops request
AskedSinceStops ==
    LET from == CHOOSE i \in 0..Len(requests) :
                   /\ i > 0 => requests[i].kind = "stops"
                   /\ \A j \in (i + 1)..Len(requests) : requests[j].kind # "stops"
                   /\ i = 0 => Len(requests) = 0
        rest == SelectSeq(SubSeq(requests, from + 1, Len(requests)),
                          LAMBDA r : r.kind = "tripstoday")
    IN  [i \in 1..Len(rest) |-> rest[i].stop_id]

\* the requests issued so far are a beginning of the fixed order
RequestOrder ==
    /\ inflight \in {"idle", "sent", "head"}
    /\ LET asked == OfKind("stops")
       IN  /\ Len(asked) <= 3
           /\ \A i \in 1..Len(asked) :
                 asked[i].route = <<"51B", "27", "E">>[i]
                 /\ asked[i].radius = <<600, 800, 1575>>[i]
    /\ LET asked == OfKind("etd")
       IN  /\ Len(asked) <= 2
           /\ \A i \in 1..Len(asked) : asked[i].orig = <<"ROCK", "ASHB">>[i]
    /\ \A i \in 1..Len(requests) :
          /\ requests[i].kind = "etd" =>
                /\ KindsBefore(i, "stops") = 3
                /\ \A j \in i..Len(requests) : requests[j].kind = "etd"
          /\ requests[i].kind = "predictions" =>
                /\ i > 1
                /\ requests[i - 1].kind = "tripstoday"
                /\ requests[i - 1].stop_id = requests[i].stop_id
          /\ (requests[i].kind = "tripstoday" /\ i < Len(requests)) =>
                /\ requests[i + 1].kind = "predictions"
                /\ requests[i + 1].stop_id = requests[i].stop_id
          /\ requests[i].kind \in {"tripstoday", "predictions"} =>
                requests[1].kind = "stops"
    /\ LET asked == AskedSinceStops
       IN  /\ Len(asked) <= Len(stops)
           /\ \A i \in 1..Len(asked) : asked[i] = stops[i].stop_id

\* a request is issued while none is in flight, and is then in flight
OneInFlight ==
    requests' # requests =>
       /\ inflight = "idle"
       /\ inflight' = "sent"
       /\ Len(requests') = Len(requests) + 1
       /\ SubSeq(requests', 1, Len(requests)) = requests

\* the response before has been read to its end
FullyReceived == last.kind = "none" \/ (last.kind = "body" /\ last.body.json)

\* the response before was a predictions response with a status other than
\* 200, dropped with its body unread
DroppedUnread == last.kind = "head" /\ last.of = "predictions" /\ last.status # 200

\* C8 as stated: one request in flight at most, the fixed order, and each
\* request issued only after the response before it was received in full.
C8_Original ==
    /\ []RequestOrder
    /\ [][OneInFlight /\ (requests' # requests => FullyReceived)]_vars

\* C8, amended: one request in flight at most and the fixed order; a request
\* is issued only after the response before it was received in full, or,
\* when that response was a predictions response with a status other than
\* 200, after its status and headers arrived and it was dropped unread.
C8_SequentialRequests ==
    /\ []RequestOrder
    /\ [][OneInFlight /\ (requests' # requests => (FullyReceived \/ DroppedUnread))]_vars

C8_Witness ==
    /\ pc = "bart_send"
    /\ sti = 2
    /\ Len(requests) = 9
    /\ Len(AskedSinceStops) = 0
    /\ Len(stops) = 0
    /\ requests[3].kind = "tripstoday" /\ requests[5].kind = "tripstoday"
    /\ requests[3].stop_id # requests[5].stop_id
    /\ act_stops[1].prediction = <<>>
    /\ act_stops[2].prediction # <<>>

\* the line of a record, but for the minutes
LineOf(stop, line) ==
    IF stop.prediction # <<>>
    THEN /\ line.form = "{} {}: {} at {} ({}m away)"
         /\ line.route = stop.route
         /\ line.direction = stop.direction[1]
         /\ line.name = stop.name
         /\ line.time = Format12h(stop.prediction[1])
         /\ stop.prediction[1] = ValueOf(TS_NIGHT)
               => line.time = <<"1", "2", ":", "1", "0", " ", "A", "M">>
         /\ stop.prediction[1] = ValueOf(TS_MORNING)
               => line.time = <<"0", "8", ":", "0", "5", " ", "A", "M">>
    ELSE line = [form |-> "{}: {} (no prediction)", route |-> stop.route,
                 name |-> stop.name]

RouteIndex(name) == CHOOSE i \in 1..3 : <<"51B", "27", "E">>[i] = name

RECURSIVE SumLen(_, _)
\* the number of estimates of the first n of a sequence of etds
SumLen(etds, n) == IF n = 0 THEN 0 ELSE SumLen(etds, n - 1) + Len(etds[n].estimate)

RECURSIVE SumStations(_, _)
SumStations(stations, n) ==
    IF n = 0 THEN 0
    ELSE SumStations(stations, n - 1) + SumLen(stations[n].etd, Len(stations[n].etd))

\* the estimates of a rail response are visited station by station,
\* destination by destination, estimate by estimate
VisitOrder(stations, visits) ==
    /\ Len(visits) = SumStations(stations, Len(stations))
    /\ \A a \in 1..Len(stations) :
          \A b \in 1..Len(stations[a].etd) :
             \A c \in 1..Len(stations[a].etd[b].estimate) :
                visits[SumStations(stations, a - 1) + SumLen(stations[a].etd, b - 1) + c]
                   = [name        |-> stations[a].name,
                      destination |-> stations[a].etd[b].destination,
                      minutes     |-> stations[a].etd[b].estimate[c].minutes,
                      color       |-> stations[a].etd[b].estimate[c].color]

Printed ==
    /\ Len(output) <= Len(act_stops) + Len(bart_stops)
    /\ pc = "done" => Len(output) = Len(act_stops) + Len(bart_stops)
    /\ \A i \in 1..Len(output) :
          LineOf(IF i <= Len(act_stops) THEN act_stops[i]
                 ELSE bart_stops[i - Len(act_stops)], output[i])
    /\ \A i, j \in 1..Len(act_stops) :
          i < j => RouteIndex(act_stops[i].route) <= RouteIndex(act_stops[j].route)

\* C9: a run that completes has printed exactly one line per record, the
\* bus records first (by route, stop and prediction), then the rail records
\* (by station, destination and estimate), a record with a prediction in
\* the "at ... away" form and a record without one in the "(no prediction)"
\* form.
C9_OneLinePerRecord ==
    /\ []Printed
    /\ [][ /\ (pc = "bart_json" /\ last'.kind = "body" /\ last'.body.json)
              => VisitOrder(last'.body.value, estimates')
           /\ (EstimateStep /\ bart_stops' # bart_stops)
              => /\ Len(bart_stops') = Len(bart_stops) + 1
                 /\ bart_stops'[Len(bart_stops')].name = estimates[1].name
                 /\ bart_stops'[Len(bart_stops')].direction = <<estimates[1].destination>>
                 /\ estimates' = Tail(estimates)
           /\ output' # output
              => /\ Len(output') = Len(output) + 1
                 /\ SubSeq(output', 1, Len(output)) = output ]_vars

C9_Witness ==
    /\ pc = "done"
    /\ Len(output) = 6
    /\ Len(act_stops) = 3 /\ Len(bart_stops) = 3
    /\ output[1].form = "{}: {} (no prediction)"
    /\ output[2].form = "{} {}: {} at {} ({}m away)"
    /\ output[2].minutes < 0
    /\ output[3].minutes > 0
    /\ output[4].direction = "Antioch" /\ output[4].minutes = 0
    /\ output[5].direction = "Antioch" /\ output[5].minutes = 4
    /\ output[6].direction = "SFO Airport"

\* a record has a direction exactly when it has a prediction
DirectionIffPrediction(stop) == (stop.direction = <<>>) <=> (stop.prediction = <<>>)

\* C10: every record of fetch_act and of fetch_bart has a direction exactly
\* when it has a prediction, so the unwrap of the direction in main's loop
\* never panics.
C10_DirectionIffPrediction ==
    /\ [](/\ \A i \in 1..Len(act_stops) : DirectionIffPrediction(act_stops[i])
          /\ \A i \in 1..Len(bart_stops) : DirectionIffPrediction(bart_stops[i]))
    /\ [][pc = "print" => pc' \in {"print", "done"}]_vars

C10_Witness ==
    /\ pc = "print"
    /\ k = 4
    /\ Len(output) = 3
    /\ output[1].form = "{} {}: {} at {} ({}m away)" /\ output[1].direction = "Southbound"
    /\ output[2].form = "{}: {} (no prediction)"
    /\ output[3].form = "{} {}: {} at {} ({}m away)" /\ output[3].direction = "Richmond"

=============================================================================
